---- MODULE Spec2Model ----
(***************************************************************************)
(* Model of the ticket tools: the Jira fetcher (jira_fetcher.py) with its   *)
(* pagination loop, and the analyzer (ticket_analyzer.py) with its ticket   *)
(* projection and its report generation.                                    *)
(*                                                                          *)
(* Three specifications share the variables:                                *)
(*   Spec      one run of JiraTicketFetcher.run                             *)
(*   SpecProj  prepare_ticket_data_for_analysis applied to one ticket       *)
(*   SpecAn    one run of the analyzer on a loaded snapshot                 *)
(***************************************************************************)
EXTENDS Integers, Sequences, FiniteSets, TLC

VARIABLES
    \* ---- fetcher (jira_fetcher.py)
    pc,              \* position in JiraTicketFetcher.run
    server_total,    \* the server holds the tickets 1..server_total, in this order
    max_results,     \* the cap given to fetch_tickets (None or an integer)
    all_tickets,     \* the accumulator of fetch_tickets
    start_at,        \* the offset of the next page request
    total_available, \* the total the last page declared (None before any page)
    requests,        \* log: one record per page request issued, with its response
    console,         \* log: what fetch_tickets printed, in order
    result,          \* what fetch_tickets returned
    raised,          \* whether fetch_tickets ended in an exception
    saved,           \* the tickets written to the snapshot file (None: no file)
    \* ---- projection (ticket_analyzer.py, prepare_ticket_data_for_analysis)
    ppc,             \* "input" before the projection, "done" after
    ticket,          \* the ticket record projected
    block,           \* the outcome of the projection
    \* ---- analyzer (ticket_analyzer.py)
    apc,             \* position in the analyzer's run
    tickets,         \* self.tickets, the loaded snapshot's tickets
    mode,            \* the analysis type argument, or "interactive"
    chat_calls,      \* the completion requests issued (their analysis types)
    aconsole,        \* what the analyzer printed, in order
    analysis,        \* the last analysis text returned by analyze_with_ollama
    files,           \* the analysis files written (their analysis types)
    rounds           \* the menu choices made in interactive mode

fvars == <<pc, server_total, max_results, all_tickets, start_at, total_available,
           requests, console, result, raised, saved>>
pvars == <<ppc, ticket, block>>
avars == <<apc, tickets, mode, chat_calls, aconsole, analysis, files, rounds>>
vars == <<fvars, pvars, avars>>

(***************************************************************************)
(* Bounds of the model.                                                     *)
(***************************************************************************)
MaxTotal == 500
MaxCap == 300

(***************************************************************************)
(* Python values.                                                           *)
(***************************************************************************)
None == [isNone |-> TRUE, v |-> 0]
Some(x) == [isNone |-> FALSE, v |-> x]
\* Python truthiness of an optional integer: None and 0 are false.
Truthy(x) == ~x.isNone /\ x.v # 0
Min(a, b) == IF a <= b THEN a ELSE b
Max(a, b) == IF a >= b THEN a ELSE b
\* s[:n]
Prefix(s, n) ==
    IF n >= 0 THEN SubSeq(s, 1, Min(n, Len(s)))
    ELSE SubSeq(s, 1, Max(0, Len(s) + n))
\* s[-n:] for n > 0
Suffix(s, n) == SubSeq(s, Max(1, Len(s) - n + 1), Len(s))

(***************************************************************************)
(* The fetcher.                                                             *)
(***************************************************************************)
batch_size == 100

\* The inputs: totals and caps around the page boundaries.
Grid(n) == {x \in 0..n : x % batch_size \in {0, 1, batch_size \div 2, batch_size - 1}}
Totals == Grid(MaxTotal)
Caps == {None} \cup {Some(c) : c \in Grid(MaxCap)}

\* The search API: the page of at most n tickets at offset `from` of the
\* server's ordered list 1..total.
ServerPage(total, from, n) ==
    [i \in 1..Min(n, Max(0, total - from)) |-> from + i]
\* The page sizes a server may use: the page size asked for, a smaller server
\* limit, or nothing at all.
ServerLimits == {0, batch_size \div 2, batch_size}
\* The totals a server holding `total` tickets may declare with a page: the
\* number it holds, a smaller one (tickets left the query's window since the
\* first page), or none (the payload has no total).
DeclaredTotals(total) == {total, total \div 2, 0}

Msg(kind, a, b) == [kind |-> kind, a |-> a, b |-> b]

\* line 155: the user's limit is reached
CapReachedWrong(max, n) == Truthy(max) /\ n > max.v
CapReached(max, n) == Truthy(max) /\ n >= max.v

\* line 156: all_tickets[:max_results]
TruncateWrong(all, max) == all
Truncate(all, max) == Prefix(all, max.v)

\* line 161: all available tickets are fetched
TotalReachedWrong(n, total) == FALSE
TotalReached(n, total) == n >= total

\* line 166: the next offset
NextStartWrong(s) == s
NextStart(s) == s + batch_size

\* lines 168-175: after the loop
AfterLoop(all, total) ==
    <<Msg("fetched", Len(all), 0)>> \o
    (IF Truthy(total) /\ Len(all) < total.v
        THEN <<Msg("shortfall", total.v - Len(all), 0)>>
        ELSE <<>>)

\* line 177: `except Exception` catches what a failed page request raises
\* (requests' exceptions and the JSON decoder's ValueError)
HandlerCatches(kind) == kind \in {"transport", "malformed"}

\* lines 177-180: the exception handler's return value
OnExceptionWrong(all) == <<>>
OnException(all) == IF all # <<>> THEN all ELSE <<>>

\* lines 238-240: run goes on to the fetch only when the probe succeeded
AfterProbeWrong(ok) == "fetch"
AfterProbe(ok) == IF ok THEN "fetch" ELSE "end"

\* lines 67-91 and 238-240: test_jira_connection, with the probe's outcome
\* (status 200, or another status or an exception), and run's return on failure
TestConnection(ok) ==
    /\ pc = "probe"
    /\ console' = console \o <<Msg(IF ok THEN "connected" ELSE "connection failed", 0, 0)>>
    /\ pc' = AfterProbe(ok)
    /\ UNCHANGED <<server_total, max_results, all_tickets, start_at, total_available,
                   requests, result, raised, saved>>

\* lines 145-166: what the loop does with a well-formed page of n_batch
\* tickets that brings the accumulator to n_all tickets: the checks in the
\* order of the code
DecideWrong(n_batch, n_all, max, total) ==
    IF n_batch = 0 THEN "empty"
    ELSE IF TotalReached(n_all, total) THEN "total"
    ELSE IF CapReached(max, n_all) THEN "cap"
    ELSE "next"
Decide(n_batch, n_all, max, total) ==
    IF n_batch = 0 THEN "empty"
    ELSE IF CapReached(max, n_all) THEN "cap"
    ELSE IF TotalReached(n_all, total) THEN "total"
    ELSE "next"

\* line 152: the progress line, printed once the page is appended
ProgressReportWrong(step, n_all, total) ==
    IF step = "next" THEN <<Msg("progress", n_all, total)>> ELSE <<>>
ProgressReport(step, n_all, total) ==
    IF step = "empty" THEN <<>> ELSE <<Msg("progress", n_all, total)>>

\* lines 108-175: one iteration of the loop whose request returns status 200
\* and a well-formed payload: a page of `limit` tickets at most and the total
\* `declared` (0 when the payload has no total, line 138)
PageOk(limit, declared) ==
    /\ pc = "fetch"
    /\ LET batch_tickets == ServerPage(server_total, start_at, limit)
           total == declared
           extended == all_tickets \o batch_tickets
           step == Decide(Len(batch_tickets), Len(extended), max_results, total)
           progress == ProgressReport(step, Len(extended), total)
       IN  /\ requests' = Append(requests,
                  [startAt |-> start_at, kind |-> "ok", n |-> Len(batch_tickets),
                   total |-> total])
           /\ total_available' = Some(total)
           /\ IF step = "empty"
                 THEN /\ all_tickets' = all_tickets
                      /\ console' = console \o progress
                                      \o AfterLoop(all_tickets, Some(total))
                      /\ result' = all_tickets
                      /\ pc' = "returned"
                      /\ UNCHANGED start_at
              ELSE IF step = "cap"
                 THEN /\ all_tickets' = Truncate(extended, max_results)
                      /\ console' = console \o progress
                                      \o AfterLoop(all_tickets', Some(total))
                      /\ result' = all_tickets'
                      /\ pc' = "returned"
                      /\ UNCHANGED start_at
              ELSE IF step = "total"
                 THEN /\ all_tickets' = extended
                      /\ console' = console \o progress
                                      \o AfterLoop(extended, Some(total))
                      /\ result' = extended
                      /\ pc' = "returned"
                      /\ UNCHANGED start_at
              ELSE    /\ all_tickets' = extended
                      /\ console' = console \o progress
                      /\ start_at' = NextStart(start_at)
                      /\ UNCHANGED <<result, pc>>
    /\ UNCHANGED <<server_total, max_results, raised, saved>>

\* lines 130-134 and 168-175: the request returns a status other than 200
PageHttpError ==
    /\ pc = "fetch"
    /\ requests' = Append(requests, [startAt |-> start_at, kind |-> "http", n |-> 0, total |-> 0])
    /\ console' = console \o <<Msg("error", 0, 0)>>
                    \o AfterLoop(all_tickets, total_available)
    /\ result' = all_tickets
    /\ pc' = "returned"
    /\ UNCHANGED <<server_total, max_results, all_tickets, start_at, total_available,
                   raised, saved>>

\* lines 121-126, 136 and 177-180: requests.get raises (kind "transport") or
\* response.json() raises on a malformed payload (kind "malformed")
PageException(kind) ==
    /\ pc = "fetch"
    /\ requests' = Append(requests, [startAt |-> start_at, kind |-> kind, n |-> 0, total |-> 0])
    /\ console' = console \o <<Msg("error", 0, 0)>>
    /\ result' = OnException(all_tickets)
    /\ raised' = ~HandlerCatches(kind)
    /\ pc' = "returned"
    /\ UNCHANGED <<server_total, max_results, all_tickets, start_at, total_available,
                   saved>>

\* lines 264-282: the rest of run, with the outcome of the file write
RunTail(write_ok) ==
    /\ pc = "returned"
    /\ saved' = IF result # <<>> /\ write_ok THEN Some(result) ELSE None
    /\ pc' = "end"
    /\ UNCHANGED <<server_total, max_results, all_tickets, start_at, total_available,
                   requests, console, result, raised>>

FetcherIdle ==
    /\ pc = "idle" /\ server_total = 0 /\ max_results = None /\ all_tickets = <<>>
    /\ start_at = 0 /\ total_available = None /\ requests = <<>> /\ console = <<>>
    /\ result = <<>> /\ raised = FALSE /\ saved = None
ProjIdle == ppc = "idle" /\ ticket = None /\ block = None
AnIdle ==
    /\ apc = "idle" /\ tickets = <<>> /\ mode = "none" /\ chat_calls = <<>>
    /\ aconsole = <<>> /\ analysis = "" /\ files = <<>> /\ rounds = 0

\* lines 102-105 and 232-262: the state when run starts
Init ==
    /\ pc = "probe"
    /\ server_total \in Totals
    /\ max_results \in Caps
    /\ all_tickets = <<>>
    /\ start_at = 0
    /\ total_available = None
    /\ requests = <<>>
    /\ console = <<>>
    /\ result = <<>>
    /\ raised = FALSE
    /\ saved = None
    /\ ProjIdle
    /\ AnIdle

Next ==
    \/ (\E ok \in BOOLEAN : TestConnection(ok)) /\ UNCHANGED <<pvars, avars>>
    \/ (\E limit \in ServerLimits, declared \in DeclaredTotals(server_total) :
            PageOk(limit, declared)) /\ UNCHANGED <<pvars, avars>>
    \/ PageHttpError /\ UNCHANGED <<pvars, avars>>
    \/ (\E kind \in {"transport", "malformed"} : PageException(kind))
           /\ UNCHANGED <<pvars, avars>>
    \/ (\E write_ok \in BOOLEAN : RunTail(write_ok)) /\ UNCHANGED <<pvars, avars>>

Spec == Init /\ [][Next]_vars

\* Every page request returns (requests.get has a timeout, line 125) and run
\* goes on after each call: a step that can be taken is taken.
SpecLive == Spec /\ WF_vars(Next)

(***************************************************************************)
(* The ticket projection: prepare_ticket_data_for_analysis, for one ticket. *)
(*                                                                          *)
(* JSON values of the snapshot.  A string member of a dict is               *)
(* [st, v] with st "missing" (no such key), "null" or "value"; an object    *)
(* with a name (status, priority, issuetype, assignee, reporter, author) is *)
(* [st, name] with st "missing", "null", "noname" (an object without the    *)
(* name key) or "named"; a list holder (comment, changelog, items) is       *)
(* [st, list] with st "missing", "null", "nolist" or "list".  Texts hold no *)
(* line break.                                                              *)
(***************************************************************************)
MaxDescLen == 500
MaxBodyLen == 200
MaxComments == 5
MaxHistories == 3
MaxItems == 3

DescLimit == 300
BodyLimit == 150
KeepComments == 3
KeepHistories == 2
DateLen == 10

NoStr == [st |-> "missing", v |-> ""]
NullStr == [st |-> "null", v |-> ""]
Str(x) == [st |-> "value", v |-> x]
NoObj == [st |-> "missing", name |-> ""]
NullObj == [st |-> "null", name |-> ""]
Unnamed == [st |-> "noname", name |-> ""]
Named(x) == [st |-> "named", name |-> x]
NoList == [st |-> "missing", list |-> <<>>]
List(l) == [st |-> "list", list |-> l]

Value(x) == [err |-> FALSE, v |-> x]
Error == [err |-> TRUE, v |-> ""]

RECURSIVE Join(_, _)
\* sep.join(lines)
Join(lines, sep) ==
    IF lines = <<>> THEN ""
    ELSE IF Len(lines) = 1 THEN lines[1]
    ELSE Join(SubSeq(lines, 1, Len(lines) - 1), sep) \o sep \o lines[Len(lines)]

RECURSIVE Flatten(_)
\* the concatenation of a sequence of sequences
Flatten(ss) ==
    IF ss = <<>> THEN <<>> ELSE Flatten(SubSeq(ss, 1, Len(ss) - 1)) \o ss[Len(ss)]

\* str(x) of a string member inside an f-string: None prints as "None"
Render(s) == IF s.st = "value" THEN s.v ELSE IF s.st = "null" THEN "None" ELSE ""

\* lines 86-88, 108, 121: d.get(k, {}).get('name', default); a null member is
\* returned by the first get, and None has no get
ObjNameTotal(obj, default) == Value(IF obj.st = "named" THEN obj.name ELSE default)
ObjName(obj, default) ==
    IF obj.st = "null" THEN Error
    ELSE Value(IF obj.st = "named" THEN obj.name ELSE default)

\* lines 90-94: p.get('displayName', default) if p else default
PersonName(p, default) == IF p.st = "named" THEN p.name ELSE default

\* lines 96-97: fields.get(k, '')[:10]
DatePart(d) ==
    IF d.st = "null" THEN Error
    ELSE Value(IF d.st = "value" THEN Prefix(d.v, DateLen) ELSE "")

\* lines 100-101 and 110-111: s[:limit] + "..." when s is longer than limit
CutWrong(s, limit) == IF Len(s) > limit THEN Prefix(s, limit) ELSE s
Cut(s, limit) == IF Len(s) > limit THEN Prefix(s, limit) \o "..." ELSE s

\* lines 85, 99-101: the description local after the truncation: None stays
\* None (rendered by line 140), a missing key gives ''
Description(d) == IF d.st = "value" THEN Str(Cut(d.v, DescLimit)) ELSE
                  IF d.st = "null" THEN NullStr ELSE Str("")

\* line 140: description or 'No description'
DescriptionFieldWrong(d) == IF d.st = "value" THEN d.v ELSE "No description"
DescriptionField(d) == IF d.st = "value" /\ d.v # "" THEN d.v ELSE "No description"

\* line 107: comment_field['comments'][-3:]
LastCommentsWrong(l) == Prefix(l, KeepComments)
LastComments(l) == Suffix(l, KeepComments)

\* lines 108-112: one comment line
CommentLine(c) ==
    LET author == ObjName(c.author, "Unknown")
    IN  IF author.err \/ c.body.st = "null" THEN Error
        ELSE Value("  " \o author.v \o ": " \o
                   Cut(IF c.body.st = "value" THEN c.body.v ELSE "", BodyLimit))

\* lines 104-112: the comments list
CommentLines(comment) ==
    IF comment.st = "list"
        THEN LET kept == LastComments(comment.list)
             IN  [i \in DOMAIN kept |-> CommentLine(kept[i])]
        ELSE <<>>

\* line 120: changelog['histories'][-2:]
LastHistories(l) == Suffix(l, KeepHistories)

\* lines 121-126: the lines of one history entry
HistoryLines(h) ==
    LET author == ObjName(h.author, "Unknown")
    IN  IF author.err \/ h.items.st = "null" THEN <<Error>>
        ELSE [i \in DOMAIN h.items.list |->
                 Value("  " \o author.v \o ": " \o Render(h.items.list[i].field)
                       \o " changed from '" \o Render(h.items.list[i].from)
                       \o "' to '" \o Render(h.items.list[i].to) \o "'")]

\* lines 117-126: the history_items list
HistoryItems(changelog) ==
    IF changelog.st = "list"
        THEN LET kept == LastHistories(changelog.list)
             IN  Flatten([i \in DOMAIN kept |-> HistoryLines(kept[i])])
        ELSE <<>>

Failed ==
    [ok |-> FALSE, status |-> "", priority |-> "", assignee_name |-> "",
     reporter_name |-> "", description |-> "", comments |-> <<>>,
     history_items |-> <<>>, lines |-> <<>>, text |-> ""]

\* lines 80-146: the block of one ticket, or Failed when a statement raises
Projection(t) ==
    LET status == ObjName(t.status, "Unknown")
        priority == ObjName(t.priority, "Unknown")
        issue_type == ObjName(t.issuetype, "Unknown")
        assignee_name == PersonName(t.assignee, "Unassigned")
        reporter_name == PersonName(t.reporter, "Unknown")
        created == DatePart(t.created)
        updated == DatePart(t.updated)
        description == DescriptionField(Description(t.description))
        cl == CommentLines(t.comment)
        hl == HistoryItems(t.changelog)
        comments == [i \in DOMAIN cl |-> cl[i].v]
        history_items == [i \in DOMAIN hl |-> hl[i].v]
        lines ==
            <<"",
              "Ticket: " \o t.key,
              "Title: " \o Render(t.summary),
              "Type: " \o issue_type.v,
              "Status: " \o status.v,
              "Priority: " \o priority.v,
              "Assignee: " \o assignee_name,
              "Reporter: " \o reporter_name,
              "Created: " \o created.v,
              "Updated: " \o updated.v,
              "Description: " \o description,
              "Recent Comments:">>
            \o (IF comments # <<>> THEN comments ELSE <<"No comments">>)
            \o <<"Recent History:">>
            \o (IF history_items # <<>> THEN history_items ELSE <<"No recent changes">>)
            \o <<"---", "">>
    IN  IF \/ status.err \/ priority.err \/ issue_type.err
           \/ created.err \/ updated.err
           \/ \E i \in DOMAIN cl : cl[i].err
           \/ \E i \in DOMAIN hl : hl[i].err
        THEN Failed
        ELSE [ok |-> TRUE, status |-> status.v, priority |-> priority.v,
              assignee_name |-> assignee_name, reporter_name |-> reporter_name,
              description |-> description, comments |-> comments,
              history_items |-> history_items, lines |-> lines,
              text |-> Join(lines, "\n")]

(***************************************************************************)
(* The tickets projected under SpecProj.                                    *)
(***************************************************************************)
Letters == <<"a", "b", "c", "d", "e", "f", "g">>
RECURSIVE Text(_, _)
\* a text of n characters, which differs with k and from place to place
Text(k, n) ==
    IF n = 0 THEN ""
    ELSE IF n = 1 THEN Letters[((k + 1) % Len(Letters)) + 1]
    ELSE Text(k, n \div 2) \o Text(k + (n \div 2), n - (n \div 2))

DescLens == {0, 1, DescLimit - 1, DescLimit, DescLimit + 1, MaxDescLen}
BodyLens == <<0, 1, BodyLimit - 1, BodyLimit, BodyLimit + 1, MaxBodyLen>>
People == <<"Ann", "Bob">>

MkTicket(description, status, priority, assignee, reporter, comment, changelog) ==
    [key |-> "L2-7", summary |-> Str("Printer on fire"),
     description |-> description, status |-> status, priority |-> priority,
     issuetype |-> Named("Bug"), assignee |-> assignee, reporter |-> reporter,
     created |-> Str("2024-06-24T16:30:00.000+0000"),
     updated |-> Str("2024-06-25T09:12:44.000+0000"),
     comment |-> comment, changelog |-> changelog]

\* the i-th comment of a ticket: every third one has no author; the body lengths
\* go round BodyLens, starting at `shift`
MkComment(i, shift) ==
    [author |-> IF i % 3 = 0 THEN NoObj ELSE Named(People[(i % 2) + 1]),
     body |-> Str(Text(i, BodyLens[((i + shift) % Len(BodyLens)) + 1]))]

\* the k-th field change of a history entry; the first has no old value
MkItem(k) ==
    [field |-> Str("status"),
     from |-> IF k = 1 THEN NullStr ELSE Str(Text(k, 2)),
     to |-> Str(Text(k + 1, 2))]

MkHistory(j, nitems) ==
    [author |-> Named(People[(j % 2) + 1]),
     items |-> List([k \in 1..nitems |-> MkItem(k)])]

\* tickets whose optional members are missing, null or present
OptionalFieldTickets ==
    {MkTicket(d, st, pr, a, r, NoList, NoList) :
        d \in {NoStr, NullStr, Str(""), Str("It burns.")},
        st \in {NoObj, NullObj, Unnamed, Named("Open")},
        pr \in {NoObj, NullObj, Unnamed, Named("High")},
        a \in {NoObj, NullObj, Unnamed, Named("Ann")},
        r \in {NoObj, NullObj, Unnamed, Named("Bob")}}

\* tickets of every size: description length, comments, history entries and
\* field changes per entry
SizedTickets ==
    {MkTicket(Str(Text(0, dl)), Named("Open"), Named("High"), Named("Ann"), Named("Bob"),
              List([i \in 1..nc |-> MkComment(i, shift)]),
              List([j \in 1..nh |-> MkHistory(j, ni)])) :
        dl \in DescLens, nc \in 0..MaxComments, shift \in 0..(Len(BodyLens) - 1),
        nh \in 0..MaxHistories, ni \in 0..MaxItems}

\* lines 79-147: the projection of self.tickets' one ticket
Project ==
    /\ ppc = "input"
    /\ block' = Projection(ticket)
    /\ ppc' = "done"
    /\ UNCHANGED ticket

InitProj ==
    /\ ppc = "input"
    /\ ticket \in OptionalFieldTickets \cup SizedTickets
    /\ block = None
    /\ FetcherIdle
    /\ AnIdle

NextProj == Project /\ UNCHANGED <<fvars, avars>>

SpecProj == InitProj /\ [][NextProj]_vars

(***************************************************************************)
(* The analyzer: one run of main on a snapshot file (ticket_analyzer.py).   *)
(***************************************************************************)
MaxTickets == 1
MaxRounds == 2

\* the tickets a snapshot may hold: a complete one, and one without priority
AnalyzerTickets ==
    {MkTicket(Str("It burns."), Named("Open"), Named("High"), NullObj, Named("Bob"),
              NoList, NoList),
     MkTicket(NullStr, Named("Open"), NullObj, Named("Ann"), Named("Bob"),
              NoList, NoList)}
Snapshots == UNION {[1..n -> AnalyzerTickets] : n \in 0..MaxTickets}
Modes == {"summary", "detailed", "trends", "weekly", "interactive"}
Sentinel == "Analysis failed. Please check Ollama connection."

\* lines 75-149: prepare_ticket_data_for_analysis over self.tickets
PrepareTicketData(ts) ==
    IF \E i \in DOMAIN ts : ~Projection(ts[i]).ok THEN Error
    ELSE Value(Join([i \in DOMAIN ts |-> Projection(ts[i]).text], "\n"))

\* lines 292-314: display_ticket_table; line 304-305 read status and priority
\* the way the projection does
DisplayTicketTable(ts) ==
    IF ts = <<>> THEN Value("No tickets to display")
    ELSE IF \E i \in DOMAIN ts : ObjName(ts[i].status, "Unknown").err
                                   \/ ObjName(ts[i].priority, "Unknown").err
        THEN Error
    ELSE Value("Ticket Overview")

\* line 272: prompts.get(analysis_type, prompts["summary"]) + ticket_data
Prompt(type, data) ==
    [template |-> IF type \in {"summary", "detailed", "trends"} THEN type ELSE "summary",
     data |-> data]

\* lines 274-290: the completion call of analyze_with_ollama: the content of
\* the response, or the sentinel when the call raises (the handler at line 288
\* catches it)
AnalyzeWithOllamaWrong(chat_ok) == IF chat_ok THEN Value("The tickets say ...") ELSE Error
AnalyzeWithOllama(chat_ok) == Value(IF chat_ok THEN "The tickets say ..." ELSE Sentinel)

\* lines 337-379: quick_summary, detailed_analysis and trend_analysis, with the
\* outcome of the completion call, the answer to the save prompt and the
\* outcome of the file write; `back` is where the caller goes on.  An
\* exception of the table, of the projection or of the analysis ends the run
\* in main (line 456).
Analyze(type, chat_ok, save, write_ok, back) ==
    LET table == IF type = "trends" THEN Value("") ELSE DisplayTicketTable(tickets)
        shown == IF type = "trends" THEN <<>> ELSE <<table.v>>
        data == PrepareTicketData(tickets)
        answer == AnalyzeWithOllama(chat_ok)
        call == [template |-> Prompt(type, data.v).template,
                 data |-> Prompt(type, data.v).data, ok |-> chat_ok]
    IN  IF table.err \/ data.err
            THEN /\ aconsole' = aconsole \o <<"Error">>
                 /\ apc' = "end"
                 /\ UNCHANGED <<chat_calls, analysis, files>>
        ELSE IF answer.err
            THEN /\ chat_calls' = Append(chat_calls, call)
                 /\ aconsole' = aconsole \o shown \o <<"Error">>
                 /\ apc' = "end"
                 /\ UNCHANGED <<analysis, files>>
            ELSE /\ chat_calls' = Append(chat_calls, call)
                 /\ analysis' = answer.v
                 /\ aconsole' = aconsole \o shown
                        \o (IF chat_ok THEN <<>> ELSE <<"Error analyzing with Ollama">>)
                        \o <<answer.v>>
                        \o (IF ~save THEN <<>>
                            ELSE IF write_ok THEN <<"Analysis saved">>
                            ELSE <<"Failed to save analysis">>)
                 /\ files' = IF save /\ write_ok THEN Append(files, type) ELSE files
                 /\ apc' = back

\* lines 445-446: load_ticket_data, with whether the file could be read
LoadTicketData(ok) ==
    /\ apc = "load"
    /\ apc' = IF ok THEN "connect" ELSE "end"
    /\ aconsole' = aconsole \o <<IF ok THEN "Loaded" ELSE "Error loading file">>
    /\ UNCHANGED <<tickets, mode, chat_calls, analysis, files, rounds>>

\* lines 28-50, 387-388 and 416-417: test_ollama_connection
TestOllamaConnection(ok) ==
    /\ apc = "connect"
    /\ apc' = IF ~ok THEN "end" ELSE IF mode = "interactive" THEN "menu" ELSE "single"
    /\ aconsole' = aconsole \o <<IF ok THEN "Ollama model is available"
                                  ELSE "Ollama connection error">>
    /\ UNCHANGED <<tickets, mode, chat_calls, analysis, files, rounds>>

\* lines 419-428: run_single_analysis after the connection test
RunSingleAnalysis(chat_ok, save, write_ok) ==
    /\ apc = "single"
    /\ IF mode \in {"summary", "detailed", "trends"}
          THEN Analyze(mode, chat_ok, save, write_ok, "end")
          ELSE /\ aconsole' = aconsole \o <<"Unknown analysis type">>
               /\ apc' = "end"
               /\ UNCHANGED <<chat_calls, analysis, files>>
    /\ UNCHANGED <<tickets, mode, rounds>>

\* lines 390-412: one turn of the menu loop of run_interactive
MenuChoice(choice, chat_ok, save, write_ok) ==
    /\ apc = "menu"
    /\ rounds < MaxRounds
    /\ rounds' = rounds + 1
    /\ IF choice = "1" THEN Analyze("summary", chat_ok, save, write_ok, "menu")
       ELSE IF choice = "2" THEN Analyze("detailed", chat_ok, save, write_ok, "menu")
       ELSE IF choice = "3" THEN Analyze("trends", chat_ok, save, write_ok, "menu")
       ELSE IF choice = "4"
          THEN LET table == DisplayTicketTable(tickets)
               IN  /\ aconsole' = aconsole \o <<IF table.err THEN "Error" ELSE table.v>>
                   /\ apc' = IF table.err THEN "end" ELSE "menu"
                   /\ UNCHANGED <<chat_calls, analysis, files>>
       ELSE IF choice = "5"
          THEN /\ aconsole' = aconsole \o <<"Goodbye!">>
               /\ apc' = "end"
               /\ UNCHANGED <<chat_calls, analysis, files>>
       ELSE    /\ aconsole' = aconsole \o <<"Invalid choice">>
               /\ apc' = "menu"
               /\ UNCHANGED <<chat_calls, analysis, files>>
    /\ UNCHANGED <<tickets, mode>>

\* lines 22-26 and 438-439: the analyzer and its arguments
InitAn ==
    /\ apc = "load"
    /\ tickets \in Snapshots
    /\ mode \in Modes
    /\ chat_calls = <<>>
    /\ aconsole = <<>>
    /\ analysis = ""
    /\ files = <<>>
    /\ rounds = 0
    /\ FetcherIdle
    /\ ProjIdle

NextAn ==
    \/ (\E ok \in BOOLEAN : LoadTicketData(ok)) /\ UNCHANGED <<fvars, pvars>>
    \/ (\E ok \in BOOLEAN : TestOllamaConnection(ok)) /\ UNCHANGED <<fvars, pvars>>
    \/ (\E chat_ok, save, write_ok \in BOOLEAN : RunSingleAnalysis(chat_ok, save, write_ok))
           /\ UNCHANGED <<fvars, pvars>>
    \/ (\E choice \in {"1", "2", "3", "4", "5", "x"}, chat_ok, save, write_ok \in BOOLEAN :
            MenuChoice(choice, chat_ok, save, write_ok))
           /\ UNCHANGED <<fvars, pvars>>

SpecAn == InitAn /\ [][NextAn]_vars

(***************************************************************************)
(* Properties of the fetcher, checked under Spec.                           *)
(***************************************************************************)
\* fetch_tickets has returned
Returned == pc = "returned"
\* no page request of the call failed
NoFailure == \A i \in DOMAIN requests : requests[i].kind = "ok"
\* the last page request of the call failed
LastFailed == requests # <<>> /\ requests[Len(requests)].kind # "ok"
\* every page served was full: min(batch_size, total - offset) tickets, with
\* the total declared
FullPages ==
    \A i \in DOMAIN requests :
        requests[i].kind = "ok" =>
            /\ requests[i].n = Min(batch_size, Max(0, server_total - requests[i].startAt))
            /\ requests[i].total = server_total
\* every page served declared the number of tickets the server holds
SteadyTotal ==
    \A i \in DOMAIN requests : requests[i].kind = "ok" => requests[i].total = server_total
\* no page served was empty while tickets remained at its offset
NoEmptyPage ==
    \A i \in DOMAIN requests :
        requests[i].kind = "ok" =>
            (requests[i].n > 0 \/ requests[i].startAt >= server_total)
\* the number of tickets the call is to deliver: the cap applies when it is
\* given and not zero (line 155)
Wanted == IF Truthy(max_results) THEN Min(max_results.v, server_total) ELSE server_total
CeilDiv(a, b) == (a + b - 1) \div b
\* the tickets of the pages the log says were served, in the order served
RECURSIVE Served(_)
Served(log) ==
    IF log = <<>> THEN <<>>
    ELSE LET r == log[Len(log)]
         IN  Served(SubSeq(log, 1, Len(log) - 1)) \o
             (IF r.kind = "ok" THEN ServerPage(server_total, r.startAt, r.n) ELSE <<>>)
Printed(m) == \E i \in DOMAIN console : console[i] = m

\* C1: against a server that serves full pages and never fails, fetch_tickets
\* returns exactly min(C, T) tickets for a cap C > 0 and exactly T tickets when
\* no cap is given.
C1_ReturnsMinCapTotal ==
    (Returned /\ NoFailure /\ FullPages) =>
        /\ (~max_results.isNone /\ max_results.v > 0) =>
               Len(result) = Min(max_results.v, server_total)
        /\ max_results.isNone => Len(result) = server_total
\* a cap that cuts inside the second page of a three-page result
C1_Witness ==
    /\ Returned /\ NoFailure /\ FullPages
    /\ server_total = 250 /\ max_results = Some(150)
    /\ Len(requests) = 2 /\ Len(result) = 150

\* C2 (as claimed): without failure, and for every server that returns up to
\* page_size tickets per page (fewer than page_size while more remain included,
\* but never an empty page while tickets remain), fetch_tickets returns exactly
\* the first min(cap, total) tickets of the server's list, in order.
C2_FirstTicketsInOrder ==
    (Returned /\ NoFailure /\ NoEmptyPage /\ SteadyTotal) => result = [i \in 1..Wanted |-> i]

\* C3: when a page request fails after at least one page was accumulated,
\* fetch_tickets returns exactly the tickets accumulated before the failure,
\* does not raise, and returns fewer tickets than the declared total.
C3_PartialResultOnFailure ==
    (Returned /\ LastFailed /\ Len(requests) >= 2) =>
        /\ result = Served(requests)
        /\ result # <<>>
        /\ ~raised
        /\ ~total_available.isNone
        /\ Len(result) < total_available.v
\* each kind of failure on the second page
C3_Witness ==
    /\ Returned /\ LastFailed /\ Len(requests) = 3
    /\ requests[3].kind = "malformed"
    /\ Len(result) = 150 /\ server_total = 500

\* C4 (as claimed): whenever fetch_tickets returns fewer tickets than the
\* declared total, a shortfall message is printed whose number is the declared
\* total minus the number of tickets returned.
C4_ShortfallReported ==
    (Returned /\ ~total_available.isNone /\ Len(result) < total_available.v) =>
        Printed(Msg("shortfall", total_available.v - Len(result), 0))

\* C5: against a server with T > 0 tickets that serves full pages and never
\* fails, fetch_tickets issues exactly ceil(min(C, T) / 100) page requests
\* (ceil(T / 100) without a cap), at the offsets 0, 100, 200, ...
C5_RequestCount ==
    (Returned /\ NoFailure /\ FullPages /\ server_total > 0) =>
        /\ Len(requests) = CeilDiv(Wanted, batch_size)
        /\ \A i \in DOMAIN requests : requests[i].startAt = (i - 1) * batch_size
\* 250 tickets without a cap: three requests, serving 100, 100 and 50
C5_Witness ==
    /\ Returned /\ NoFailure /\ server_total = 250 /\ max_results = None
    /\ Len(requests) = 3
    /\ requests[1].n = 100 /\ requests[2].n = 100 /\ requests[3].n = 50
    /\ requests[3].startAt = 200
\* cap 50 against 500 tickets: one request, 50 tickets, 450 remain
C5_Scenario ==
    (Returned /\ NoFailure /\ FullPages /\ server_total = 500 /\ max_results = Some(50)) =>
        /\ Len(requests) = 1 /\ Len(result) = 50
        /\ Printed(Msg("shortfall", 450, 0))

\* C12: when the connectivity probe fails, the failure is reported and the run
\* ends with no page request issued and no snapshot file written; a page
\* request is issued only after a successful probe.
C12_NoFetchAfterFailedProbe ==
    /\ Printed(Msg("connection failed", 0, 0)) =>
          /\ pc = "end"
          /\ requests = <<>>
          /\ saved = None
          /\ console = <<Msg("connection failed", 0, 0)>>
    /\ (pc = "end" /\ requests = <<>>) => Printed(Msg("connection failed", 0, 0))
    /\ (requests # <<>> \/ saved # None \/ pc \in {"fetch", "returned"}) =>
          console[1] = Msg("connected", 0, 0)
\* the run has ended after a failed probe
C12_Witness ==
    /\ pc = "end" /\ Printed(Msg("connection failed", 0, 0))
    /\ requests = <<>> /\ server_total = 250

\* the last page request of the call
LastRequest == requests[Len(requests)]
\* the cap is given, not zero, and reached by n tickets
CapMet(n) == Truthy(max_results) /\ n >= max_results.v

\* C14: the stop conditions are evaluated in the order failure, empty page,
\* cap reached, declared total reached.  After each page request: a failed
\* response adds no tickets and stops the loop; an empty page stops it with the
\* accumulator untouched, whatever the cap and the declared total; a page that
\* brings the count to the cap or beyond stops it with exactly the cap's
\* number of tickets, the declared total reached or not; a page that brings
\* the count to the declared total, below the cap, stops it with all the
\* tickets served; any other page is appended and the loop goes on.
C14_StopOrder ==
    requests # <<>> =>
        LET r == LastRequest
            served == Served(requests)
        IN  /\ r.kind # "ok" => (pc # "fetch" /\ all_tickets = served)
            /\ (r.kind = "ok" /\ r.n = 0) => (pc # "fetch" /\ all_tickets = served)
            /\ (r.kind = "ok" /\ r.n > 0 /\ CapMet(Len(served))) =>
                   /\ pc # "fetch"
                   /\ all_tickets = SubSeq(served, 1, max_results.v)
            /\ (r.kind = "ok" /\ r.n > 0 /\ ~CapMet(Len(served))
                    /\ Len(served) >= r.total) =>
                   (pc # "fetch" /\ all_tickets = served)
            /\ (r.kind = "ok" /\ r.n > 0 /\ ~CapMet(Len(served))
                    /\ Len(served) < r.total) =>
                   (pc = "fetch" /\ all_tickets = served)
\* the second page passes both the cap and the declared total: the result is
\* cut to the cap
C14_Witness ==
    /\ Returned /\ NoFailure /\ Len(requests) = 2
    /\ server_total = 150 /\ max_results = Some(101)
    /\ LastRequest.n = 50 /\ LastRequest.total = 150
    /\ Len(result) = 101
\* an empty second page stops the loop below the cap and the declared total
C14_EmptyPageStops ==
    /\ Returned /\ NoFailure /\ Len(requests) = 2
    /\ LastRequest.n = 0 /\ LastRequest.total = 500
    /\ max_results = Some(300) /\ Len(result) = 100

\* the progress lines printed so far
ProgressLines == SelectSeq(console, LAMBDA m : m.kind = "progress")
\* the progress lines that a log of page requests calls for, one per page
\* served (per page that holds a ticket when empty_too is FALSE): the count
\* accumulated with that page and the total the page declared
RECURSIVE ProgressFor(_, _)
ProgressFor(log, empty_too) ==
    IF log = <<>> THEN <<>>
    ELSE LET r == log[Len(log)]
         IN  ProgressFor(SubSeq(log, 1, Len(log) - 1), empty_too) \o
             (IF r.kind = "ok" /\ (empty_too \/ r.n > 0)
                 THEN <<Msg("progress", Len(Served(log)), r.total)>>
                 ELSE <<>>)
\* the progress lines come before the lines printed after the loop
ProgressBeforeExit ==
    \A i, j \in DOMAIN console :
        (console[i].kind = "progress" /\ console[j].kind \in {"fetched", "shortfall"})
            => i < j

\* C15 (as claimed): after every page response received, a progress report
\* (count fetched / count available) is printed before the next page request
\* or the loop's exit.
C15_ProgressAfterEveryPage ==
    /\ ProgressLines = ProgressFor(requests, TRUE)
    /\ ProgressBeforeExit
\* C15 (amended): after every page response that holds at least one ticket, a
\* progress report (count fetched / count available) is printed before the
\* next page request or the loop's exit; an empty page prints none.
C15_ProgressAfterNonEmptyPage ==
    /\ ProgressLines = ProgressFor(requests, FALSE)
    /\ ProgressBeforeExit
\* three pages, the last one passing the cap: three progress lines, the last
\* with the count before the cut
C15_Witness ==
    /\ Returned /\ NoFailure /\ Len(requests) = 3
    /\ server_total = 500 /\ max_results = Some(250)
    /\ ProgressLines = <<Msg("progress", 100, 500), Msg("progress", 200, 500),
                         Msg("progress", 300, 500)>>

\* C16: nothing is retried.  The offsets requested are 0, 100, 200, ..., each
\* page_size beyond the one before, so that no offset is requested twice, and
\* a failed page request is the last request of the call.
C16_NothingRetried ==
    /\ \A i \in DOMAIN requests : requests[i].startAt = (i - 1) * batch_size
    /\ \A i, j \in DOMAIN requests :
           requests[i].startAt = requests[j].startAt => i = j
    /\ \A i \in DOMAIN requests :
           requests[i].kind # "ok" => (i = Len(requests) /\ pc # "fetch")
    /\ pc = "fetch" => start_at = Len(requests) * batch_size
\* a failure on the third request ends the call at offset 200
C16_Witness ==
    /\ pc = "end" /\ Len(requests) = 3
    /\ requests[1].kind = "ok" /\ requests[2].kind = "ok"
    /\ requests[3].kind = "transport" /\ requests[3].startAt = 200
    /\ server_total = 500

\* C17: the fetch loop terminates.  With every declared total at most
\* T = server_total, whatever the cap and the sizes of the pages: while the
\* loop goes on every request so far appended at least one ticket and the
\* count is below the declared total, so that the call makes at most
\* max(T, 1) page requests; and the loop, once entered, is left.
C17_Terminates ==
    /\ [](/\ Len(requests) <= Max(server_total, 1)
          /\ pc = "fetch" =>
                /\ \A i \in DOMAIN requests : requests[i].kind = "ok" /\ requests[i].n >= 1
                /\ Len(all_tickets) >= Len(requests)
                /\ requests # <<>> => Len(all_tickets) < LastRequest.total)
    /\ (pc = "fetch") ~> (pc = "returned")
\* short pages against 101 tickets: a page of 50, the page of the one ticket
\* at offset 100, then an empty page
C17_Witness ==
    /\ Returned /\ NoFailure /\ server_total = 101
    /\ Len(requests) = 3
    /\ requests[1].n = 50 /\ requests[2].n = 1 /\ requests[3].n = 0

(***************************************************************************)
(* Properties of the projection, checked under SpecProj.                    *)
(***************************************************************************)
Projected == ppc = "done"
PresentOrNull(x) == x.st \in {"value", "named", "null"}

\* C7 (as claimed): the projection is total: for every ticket whose
\* description, status, priority, assignee and reporter are each present or
\* null, it produces a text block and does not end in an error.
C7_ProjectionTotal ==
    (/\ Projected
     /\ PresentOrNull(ticket.description) /\ PresentOrNull(ticket.status)
     /\ PresentOrNull(ticket.priority) /\ PresentOrNull(ticket.assignee)
     /\ PresentOrNull(ticket.reporter)) => block.ok

\* the lines of the template that are there for every ticket (lines 130-146)
TemplateLines == 15
\* the lines of the kept history entries of the ticket
ItemCount(t) ==
    IF t.changelog.st = "list"
        THEN Len(Flatten([i \in DOMAIN LastHistories(t.changelog.list) |->
                             LastHistories(t.changelog.list)[i].items.list]))
        ELSE 0

\* C8 (as claimed): the size of a block is under a fixed bound that does not
\* depend on the ticket.  The bound is the one the limits of the projection
\* give (the template, 3 comments, 2 history entries); any other fixed number
\* is exceeded in the same way, by a ticket with that many field changes in
\* its last history entries, as C8_LineCount shows.
C8_BlockBounded ==
    (Projected /\ block.ok) =>
        Len(block.lines) <= TemplateLines + KeepComments + KeepHistories
\* what holds instead: one line for each field change of the kept entries
C8_LineCount ==
    (Projected /\ block.ok) =>
        Len(block.lines) = TemplateLines + Max(1, Len(block.comments))
                               + Max(1, ItemCount(ticket))

\* C9: for a ticket with n comments the block holds exactly the last
\* min(n, 3) comments in storage order, each as a line with the author's
\* display name before the body, the body cut to its first 150 characters
\* plus "..." when it is longer than 150.
C9_LastThreeComments ==
    (Projected /\ block.ok /\ ticket.comment.st = "list") =>
        LET cs == ticket.comment.list
            n == Len(cs)
            k == Min(n, 3)
        IN  /\ Len(block.comments) = k
            /\ \A j \in 1..k :
                  LET c == cs[n - k + j]
                      who == IF c.author.st = "named" THEN c.author.name ELSE "Unknown"
                      body == IF Len(c.body.v) > 150
                                  THEN SubSeq(c.body.v, 1, 150) \o "..."
                                  ELSE c.body.v
                  IN  /\ block.comments[j] = "  " \o who \o ": " \o body
                      /\ block.lines[12 + j] = block.comments[j]
            /\ block.lines[12 + Max(k, 1) + 1] = "Recent History:"
\* five comments, of which the third and the fourth are longer than 150
C9_Witness ==
    /\ Projected /\ block.ok /\ ticket.comment.st = "list"
    /\ Len(ticket.comment.list) = 5
    /\ Len(block.comments) = 3
    /\ Len(ticket.comment.list[3].body.v) = 151
    /\ Len(block.comments[1]) = 2 + 7 + 2 + 153
    /\ Len(ticket.comment.list[5].body.v) = 0

\* C10 (as claimed): a description of length L is projected to length L when
\* L <= 300 and to length 303 when L > 300.
C10_DescriptionLength ==
    (Projected /\ block.ok /\ ticket.description.st = "value") =>
        Len(block.description) =
            IF Len(ticket.description.v) <= 300 THEN Len(ticket.description.v) ELSE 303

\* C10 (amended): a description of length L with 1 <= L <= 300 is projected
\* unchanged, one with L > 300 to its first 300 characters plus "..." (303
\* characters), and an empty one (L = 0) to the placeholder "No description".
C10_DescriptionLengthAmended ==
    (Projected /\ block.ok /\ ticket.description.st = "value") =>
        LET d == ticket.description.v
        IN  /\ Len(d) = 0 => block.description = "No description"
            /\ (1 <= Len(d) /\ Len(d) <= 300) => block.description = d
            /\ Len(d) > 300 =>
                  /\ block.description = SubSeq(d, 1, 300) \o "..."
                  /\ Len(block.description) = 303
            /\ block.lines[11] = "Description: " \o block.description
\* a description of 500 characters
C10_Witness ==
    /\ Projected /\ block.ok /\ ticket.description.st = "value"
    /\ Len(ticket.description.v) = 500
    /\ Len(block.description) = 303

MissingOrNull(x) == x.st \in {"missing", "null"}

\* C11: in every block the Assignee, Reporter and Description fields are
\* neither blank nor null: a missing or null assignee renders "Unassigned", a
\* missing or null reporter "Unknown", a missing or null description
\* "No description".
C11_Placeholders ==
    (Projected /\ block.ok) =>
        /\ block.assignee_name \notin {"", "None"}
        /\ block.reporter_name \notin {"", "None"}
        /\ block.description \notin {"", "None"}
        /\ MissingOrNull(ticket.assignee) =>
              /\ block.assignee_name = "Unassigned"
              /\ block.lines[7] = "Assignee: Unassigned"
        /\ MissingOrNull(ticket.reporter) =>
              /\ block.reporter_name = "Unknown"
              /\ block.lines[8] = "Reporter: Unknown"
        /\ MissingOrNull(ticket.description) =>
              /\ block.description = "No description"
              /\ block.lines[11] = "Description: No description"
\* a ticket with a null assignee, no reporter and a null description
C11_Witness ==
    /\ Projected /\ block.ok
    /\ ticket.assignee.st = "null" /\ ticket.reporter.st = "missing"
    /\ ticket.description.st = "null"
    /\ block.lines[7] = "Assignee: Unassigned"

(***************************************************************************)
(* Properties of the analyzer, checked under SpecAn.                        *)
(***************************************************************************)
\* C6 (as claimed): when a "summary" analysis runs on a snapshot with an empty
\* ticket list, no completion request is issued, and the user is told that
\* there is nothing to analyze.
C6_NoRequestOnEmpty ==
    (mode = "summary" /\ tickets = <<>> /\ apc = "end"
        /\ \E i \in DOMAIN aconsole : aconsole[i] = "Ollama model is available") =>
        /\ chat_calls = <<>>
        /\ \E i \in DOMAIN aconsole : aconsole[i] = "No tickets to display"

\* the completion calls that failed, and the failures reported
FailedCalls == {i \in DOMAIN chat_calls : ~chat_calls[i].ok}
FailureReports == {i \in DOMAIN aconsole : aconsole[i] = "Error analyzing with Ollama"}

\* C13: when the completion call fails, analyze_with_ollama reports the
\* failure and returns the sentinel instead of raising, and the run is not
\* aborted: in interactive mode the menu loop goes on until the user leaves.
C13_SentinelOnChatFailure ==
    /\ Cardinality(FailureReports) = Cardinality(FailedCalls)
    /\ \A i \in FailureReports : i < Len(aconsole) /\ aconsole[i + 1] = Sentinel
    /\ (chat_calls # <<>> /\ ~chat_calls[Len(chat_calls)].ok) => analysis = Sentinel
    /\ FailedCalls # {} =>
          /\ \A i \in DOMAIN aconsole : aconsole[i] # "Error"
          /\ apc \in {"menu", "end"}
          /\ mode = "interactive" =>
                (apc = "menu" \/ aconsole[Len(aconsole)] = "Goodbye!")
\* interactive mode: a failed completion call, then another analysis
C13_Witness ==
    /\ mode = "interactive" /\ apc = "menu"
    /\ Len(chat_calls) = 2
    /\ ~chat_calls[1].ok /\ chat_calls[2].ok
    /\ analysis # Sentinel

====
